---- MODULE Spec2Model ----
(***************************************************************************)
(* Model of src/src/services/api.ts: the fetch wrapper with a timeout      *)
(* (fetchWithTimeout), the response interpreter (handleResponse), the      *)
(* client object (apiClient) and the retry loop (retryRequest).            *)
(***************************************************************************)
EXTENDS Integers, Sequences, FiniteSets, TLC

\* ------------------------------------------------------------------------
\* Bounds of the model
\* ------------------------------------------------------------------------
MaxReq == 2
MaxTime == 3
MaxRetries == 3

\* API_CONFIG.TIMEOUT, in clock ticks (imported constant, api.ts line 28)
TIMEOUT == 2
\* API_CONFIG.RETRY_ATTEMPTS (imported constant, api.ts line 219)
RETRY_ATTEMPTS == 3

Req == 1..MaxReq

\* ------------------------------------------------------------------------
\* JavaScript values
\* ------------------------------------------------------------------------
\* A property value: t is the result of a type test, s its text.
Undef == [t |-> "undefined", s |-> "undefined"]
Null == [t |-> "null", s |-> "null"]
JTrue == [t |-> "boolean", s |-> "true"]
JFalse == [t |-> "boolean", s |-> "false"]
JNum(x) == [t |-> "number", s |-> x]
JStr(x) == [t |-> "string", s |-> x]
\* an object or array whose own fields the client never reads; s is its JSON text
JObj(x) == [t |-> "object", s |-> x]
JArr(x) == [t |-> "array", s |-> x]

\* A value whose `data` and `message` properties the client reads.
\* Property access on a primitive yields undefined.
Lift(a) == [t |-> a.t, s |-> a.s, data |-> Undef, message |-> Undef]
Body(x, d, m) == [t |-> "object", s |-> x, data |-> d, message |-> m]
EmptyObject == Body("{}", Undef, Undef)
NoValue == Lift([t |-> "-", s |-> "-"])

\* JavaScript ToBoolean
Truthy(a) ==
  CASE a.t = "undefined" -> FALSE
    [] a.t = "null" -> FALSE
    [] a.t = "boolean" -> a.s = "true"
    [] a.t = "number" -> a.s \notin {"0", "NaN"}
    [] a.t = "string" -> a.s # ""
    [] OTHER -> TRUE

\* typeof x === "object"
TypeofObject(a) == a.t \in {"object", "array", "null"}

\* JavaScript ToString, as applied by the Error constructor to its message
JsToString(a) ==
  CASE a.t = "object" -> "[object Object]"
    [] OTHER -> a.s

\* String.prototype.includes
Includes(str, sub) ==
  \E i \in 1..(Len(str) + 1) :
    /\ i + Len(sub) - 1 <= Len(str)
    /\ SubSeq(str, i, i + Len(sub) - 1) = sub

\* ------------------------------------------------------------------------
\* Errors
\* ------------------------------------------------------------------------
MSG_INVALID_FORMAT == "Invalid response format from server"
MSG_INVALID_DATA == "Du lieu khong hop le"
MSG_CANNOT_CONNECT == "Khong the ket noi den server. Vui long kiem tra ket noi mang hoac thu lai sau."
MSG_UNAUTHORIZED == "API_ERROR_MESSAGES.UNAUTHORIZED"
MSG_FORBIDDEN == "API_ERROR_MESSAGES.FORBIDDEN"
MSG_NOT_FOUND == "API_ERROR_MESSAGES.NOT_FOUND"
MSG_SERVER_ERROR == "API_ERROR_MESSAGES.SERVER_ERROR"
MSG_TIMEOUT == "API_ERROR_MESSAGES.TIMEOUT"
MSG_NETWORK_ERROR == "API_ERROR_MESSAGES.NETWORK_ERROR"

\* A thrown value. cls is the constructor ("NonError" for a thrown value that
\* is not an Error object); status is -1 and data is undefined outside ApiError.
Thrown(cls, name, message) ==
  [cls |-> cls, name |-> name, message |-> message, status |-> -1, data |-> Lift(Undef)]
NoError == Thrown("-", "-", "-")

\* class ApiError: super(message) converts the message, name is "ApiError"
ApiError(status, message, data) ==
  [cls |-> "ApiError", name |-> "ApiError", message |-> message,
   status |-> status, data |-> data]

IsApiError(e) == e.cls = "ApiError"
IsError(e) == e.cls \notin {"NonError", "-"}

AbortError == Thrown("DOMException", "AbortError", "The user aborted a request.")
NullDataTypeError ==
  Thrown("TypeError", "TypeError", "Cannot read properties of null (reading 'data')")

\* ------------------------------------------------------------------------
\* Settled and pending promises
\* ------------------------------------------------------------------------
Pending == [kind |-> "pending", value |-> NoValue, err |-> NoError]
Resolved(v) == [kind |-> "resolved", value |-> v, err |-> NoError]
Rejected(e) == [kind |-> "rejected", value |-> NoValue, err |-> e]

\* ------------------------------------------------------------------------
\* Responses
\* ------------------------------------------------------------------------
\* Response bodies as sent on the wire, with the value JSON.parse gives for
\* each (ok = FALSE: JSON.parse throws a SyntaxError).
Parsed(v) == [ok |-> TRUE, value |-> v]
SyntaxError == [ok |-> FALSE, value |-> NoValue]

JsonParse(raw) ==
  CASE raw = "{\"data\":{\"id\":1}}" -> Parsed(Body(raw, JObj("{\"id\":1}"), Undef))
    [] raw = "{\"data\":\"ok\"}" -> Parsed(Body(raw, JStr("ok"), Undef))
    [] raw = "{\"data\":0}" -> Parsed(Body(raw, JNum("0"), Undef))
    [] raw = "{\"data\":false}" -> Parsed(Body(raw, JFalse, Undef))
    [] raw = "{\"data\":\"\"}" -> Parsed(Body(raw, JStr(""), Undef))
    [] raw = "{\"data\":null}" -> Parsed(Body(raw, Null, Undef))
    [] raw = "{\"data\":[1],\"message\":\"Boom\"}" -> Parsed(Body(raw, JArr("[1]"), JStr("Boom")))
    [] raw = "{\"message\":\"Boom\"}" -> Parsed(Body(raw, Undef, JStr("Boom")))
    [] raw = "{\"message\":\"\"}" -> Parsed(Body(raw, Undef, JStr("")))
    [] raw = "{\"message\":0}" -> Parsed(Body(raw, Undef, JNum("0")))
    [] raw = "{\"message\":404}" -> Parsed(Body(raw, Undef, JNum("404")))
    [] raw = "{\"message\":null}" -> Parsed(Body(raw, Undef, Null))
    [] raw = "{\"message\":{\"code\":7}}" -> Parsed(Body(raw, Undef, JObj("{\"code\":7}")))
    [] raw = "{\"id\":1}" -> Parsed(Body(raw, Undef, Undef))
    [] raw = "{}" -> Parsed(Body(raw, Undef, Undef))
    [] raw = "[1]" -> Parsed(Lift(JArr(raw)))
    [] raw = "\"text\"" -> Parsed(Lift(JStr("text")))
    [] raw = "\"\"" -> Parsed(Lift(JStr("")))
    [] raw = "7" -> Parsed(Lift(JNum("7")))
    [] raw = "0" -> Parsed(Lift(JNum("0")))
    [] raw = "true" -> Parsed(Lift(JTrue))
    [] raw = "false" -> Parsed(Lift(JFalse))
    [] raw = "null" -> Parsed(Lift(Null))
    [] OTHER -> SyntaxError

WrappedBodies ==
  {"{\"data\":{\"id\":1}}", "{\"data\":\"ok\"}", "{\"data\":0}", "{\"data\":false}",
   "{\"data\":\"\"}", "{\"data\":null}", "{\"data\":[1],\"message\":\"Boom\"}"}
MessageBodies ==
  {"{\"message\":\"Boom\"}", "{\"message\":\"\"}", "{\"message\":0}", "{\"message\":404}",
   "{\"message\":null}", "{\"message\":{\"code\":7}}"}
PlainBodies ==
  {"{\"id\":1}", "{}", "[1]", "\"text\"", "\"\"", "7", "0", "true", "false", "null"}
MalformedBodies == {"<html>oops</html>", ""}
RawBodies == WrappedBodies \cup MessageBodies \cup PlainBodies \cup MalformedBodies

\* the content-type header of a response ("null": the header is missing)
ContentTypes == {"application/json; charset=utf-8", "text/plain", "null"}
Statuses == {200, 201, 400, 401, 403, 404, 500}

\* A Response: intact = FALSE when the body stream breaks while it is read.
Response(status, ctype, raw, intact) ==
  [status |-> status, ctype |-> ctype, raw |-> raw, intact |-> intact]
NoResponse == Response(-1, "-", "-", FALSE)
Responses ==
  {Response(st, ct, raw, ok) : st \in Statuses, ct \in ContentTypes,
                               raw \in RawBodies, ok \in {TRUE}}
  \cup {Response(st, ct, "{}", FALSE) : st \in Statuses, ct \in ContentTypes}

\* response.ok
Ok(response) == response.status >= 200 /\ response.status <= 299

\* lines 56-60: the body-reading method handleResponse calls
ReadMethod(response) ==
  IF response.ctype # "null" /\ Includes(response.ctype, "application/json")
  THEN "json" ELSE "text"

\* lines 55-60: the body read by declared content type
ReadBody(response) ==
  IF ~response.intact THEN SyntaxError
  ELSE IF response.ctype # "null" /\ Includes(response.ctype, "application/json")
       THEN JsonParse(response.raw)
       ELSE Parsed(Lift(JStr(response.raw)))

\* DefaultMessage without the case for 403
DefaultMessageNo403(status) ==
  CASE status = 400 -> MSG_INVALID_DATA
    [] status = 401 -> MSG_UNAUTHORIZED
    [] status = 404 -> MSG_NOT_FOUND
    [] OTHER -> MSG_SERVER_ERROR

\* lines 69-100: the default message of a status
DefaultMessage(status) ==
  CASE status = 400 -> MSG_INVALID_DATA
    [] status = 401 -> MSG_UNAUTHORIZED
    [] status = 403 -> MSG_FORBIDDEN
    [] status = 404 -> MSG_NOT_FOUND
    [] OTHER -> MSG_SERVER_ERROR

\* SafeData without the truthiness test: typeof null is "object"
SafeDataTypeofOnly(data) == IF TypeofObject(data) THEN data ELSE EmptyObject

\* line 67
SafeData(data) == IF Truthy(data) /\ TypeofObject(data) THEN data ELSE EmptyObject

\* safeData.message || <default>, converted by the Error constructor
ErrorMessage(safeData, status) ==
  IF Truthy(safeData.message) THEN JsToString(safeData.message)
  ELSE DefaultMessage(status)

\* line 103: data.data || data (reading a property of null throws)
Unwrap(data) ==
  IF data.t = "null" THEN Rejected(NullDataTypeError)
  ELSE IF Truthy(data.data) THEN Resolved(Lift(data.data))
  ELSE Resolved(data)

\* handleResponse dispatching on the status before it looks at the parse failure
handleResponseStatusFirst(response) ==
  LET read == ReadBody(response)
      data == IF read.ok THEN read.value ELSE Lift(Undef) IN
  IF ~Ok(response)
  THEN Rejected(ApiError(response.status,
                         ErrorMessage(SafeData(data), response.status),
                         SafeData(data)))
  ELSE IF ~read.ok
       THEN Rejected(ApiError(response.status, MSG_INVALID_FORMAT, Lift(Undef)))
       ELSE Unwrap(read.value)

\* handleResponse: the promise it returns, settled
handleResponse(response) ==
  LET read == ReadBody(response) IN
  IF ~read.ok
  THEN Rejected(ApiError(response.status, MSG_INVALID_FORMAT, Lift(Undef)))
  ELSE IF ~Ok(response)
       THEN Rejected(ApiError(response.status,
                              ErrorMessage(SafeData(read.value), response.status),
                              SafeData(read.value)))
       ELSE Unwrap(read.value)

\* ------------------------------------------------------------------------
\* apiClient.request: classification of a failure caught at lines 126-146
\* ------------------------------------------------------------------------
Classify(error) ==
  IF IsApiError(error) THEN error
  ELSE IF IsError(error)
       THEN IF error.name = "AbortError" THEN ApiError(408, MSG_TIMEOUT, Lift(Undef))
            ELSE IF Includes(error.message, "Failed to fetch")
                 THEN ApiError(0, MSG_CANNOT_CONNECT, Lift(Undef))
                 ELSE ApiError(0, MSG_NETWORK_ERROR, Lift(Undef))
       ELSE ApiError(0, MSG_SERVER_ERROR, Lift(Undef))

\* ------------------------------------------------------------------------
\* Headers and request configurations
\* ------------------------------------------------------------------------
Absent == "<absent>"
HeaderKeys == {"Accept", "Content-Type", "X-Foo", "x-foo"}
\* A header object: every key of HeaderKeys, Absent when the object lacks it.
NoHeaders == [k \in HeaderKeys |-> Absent]
Headers1(k, v) == [NoHeaders EXCEPT ![k] = v]
\* { ...a, ...b } on header objects
SpreadHeaders(a, b) == [k \in HeaderKeys |-> IF b[k] # Absent THEN b[k] ELSE a[k]]

\* A RequestConfig object: fields is the set of keys it has.
NoConfig ==
  [fields |-> {}, method |-> Absent, body |-> Absent, headers |-> NoHeaders,
   timeout |-> 0, credentials |-> Absent, signal |-> Absent]
\* { ...a, ...b } on config objects
Spread(a, b) ==
  [fields |-> a.fields \cup b.fields,
   method |-> IF "method" \in b.fields THEN b.method ELSE a.method,
   body |-> IF "body" \in b.fields THEN b.body ELSE a.body,
   headers |-> IF "headers" \in b.fields THEN b.headers ELSE a.headers,
   timeout |-> IF "timeout" \in b.fields THEN b.timeout ELSE a.timeout,
   credentials |-> IF "credentials" \in b.fields THEN b.credentials ELSE a.credentials,
   signal |-> IF "signal" \in b.fields THEN b.signal ELSE a.signal]
WithMethod(m) == [NoConfig EXCEPT !.fields = {"method"}, !.method = m]
WithBody(b) == [NoConfig EXCEPT !.fields = {"body"}, !.body = b]
WithHeaders(h) == [NoConfig EXCEPT !.fields = {"headers"}, !.headers = h]
WithTimeout(t) == [NoConfig EXCEPT !.fields = {"timeout"}, !.timeout = t]
WithFetchOptions(c, sig) ==
  [NoConfig EXCEPT !.fields = {"credentials", "signal"}, !.credentials = c, !.signal = sig]

\* JSON.stringify (undefined stays undefined: no body)
Stringify(a) ==
  CASE a.t = "undefined" -> Absent
    [] a.t = "string" -> "\"" \o a.s \o "\""
    [] OTHER -> a.s

\* new FormData() with the file appended under the field name "file"
FormData(file) == "FormData{file=" \o file \o "}"

\* A call of a helper of apiClient: data is the second argument of
\* post/put/patch, file that of upload.
HelperCall(helper, data, file, config) ==
  [helper |-> helper, data |-> data, file |-> file, config |-> config]
NoCall == HelperCall("-", Undef, "-", NoConfig)

\* HelperConfig with the caller's config spread first, under the helper's fields
HelperConfigDefaultsWin(c) ==
  CASE c.helper = "get" -> Spread(c.config, WithMethod("GET"))
    [] c.helper = "post" ->
         Spread(c.config, Spread(WithMethod("POST"), WithBody(Stringify(c.data))))
    [] c.helper = "put" ->
         Spread(c.config, Spread(WithMethod("PUT"), WithBody(Stringify(c.data))))
    [] c.helper = "patch" ->
         Spread(c.config, Spread(WithMethod("PATCH"), WithBody(Stringify(c.data))))
    [] c.helper = "delete" -> Spread(c.config, WithMethod("DELETE"))
    [] c.helper = "upload" ->
         Spread(c.config,
                Spread(Spread(WithMethod("POST"), WithBody(FormData(c.file))),
                       WithHeaders(NoHeaders)))
    [] OTHER -> c.config

\* lines 149-213: the config each helper hands to request
HelperConfig(c) ==
  CASE c.helper = "get" -> Spread(WithMethod("GET"), c.config)
    [] c.helper = "post" ->
         Spread(Spread(WithMethod("POST"), WithBody(Stringify(c.data))), c.config)
    [] c.helper = "put" ->
         Spread(Spread(WithMethod("PUT"), WithBody(Stringify(c.data))), c.config)
    [] c.helper = "patch" ->
         Spread(Spread(WithMethod("PATCH"), WithBody(Stringify(c.data))), c.config)
    [] c.helper = "delete" -> Spread(WithMethod("DELETE"), c.config)
    [] c.helper = "upload" ->
         Spread(Spread(Spread(WithMethod("POST"), WithBody(FormData(c.file))),
                       WithHeaders(NoHeaders)),
                c.config)
    [] OTHER -> c.config

\* line 28: const { timeout = API_CONFIG.TIMEOUT } = config
TimeoutOf(config) == IF "timeout" \in config.fields THEN config.timeout ELSE TIMEOUT

\* FetchInit with the defaults spread over the caller's headers
FetchInitDefaultsWin(config, defaults) ==
  Spread(config,
         [NoConfig EXCEPT !.fields = {"credentials", "headers", "signal"},
                          !.credentials = "include",
                          !.headers = SpreadHeaders(config.headers, defaults),
                          !.signal = "controller.signal"])

\* FetchInit with ...config spread last, over credentials, headers and signal
FetchInitConfigLast(config, defaults) ==
  Spread([NoConfig EXCEPT !.fields = {"credentials", "headers", "signal"},
                          !.credentials = "include",
                          !.headers = SpreadHeaders(defaults, config.headers),
                          !.signal = "controller.signal"],
         config)

\* lines 34-42: the init object handed to fetch
FetchInit(config, defaults) ==
  Spread(config,
         [NoConfig EXCEPT !.fields = {"credentials", "headers", "signal"},
                          !.credentials = "include",
                          !.headers = SpreadHeaders(defaults, config.headers),
                          !.signal = "controller.signal"])

\* ------------------------------------------------------------------------
\* State
\* ------------------------------------------------------------------------
VARIABLES
  defaultHeaders, \* apiClient.defaultHeaders
  lastUpdate,     \* history: per header key, the most recent update naming it
  pc,             \* per request: "idle", "fetching", "reading", "settled"
  timer,          \* per request: the timer of line 31: "none", "pending", "fired", "cleared"
  age,            \* per request: clock ticks since the call started, while it runs
  call,           \* per request: the helper call that started it
  sent,           \* per request: the init object handed to fetch
  resp,           \* per request: the Response fetch resolved with
  raised,         \* per request: history: the failure raised inside the request path
  outcome,        \* per request: the promise returned to the caller
  fetches,        \* per request: history: number of calls of fetch
  reads,          \* per request: history: the body-reading methods called on the response
  rpc,            \* retryRequest: "idle", "calling", "waiting", "done"
  maxRetries,     \* retryRequest: the attempt limit in force
  i,              \* retryRequest: the loop index
  lastError,      \* retryRequest: lastError
  attempts,       \* retryRequest: history: the outcome of each invocation of requestFn
  waits,          \* retryRequest: history: number of delays scheduled
  result          \* retryRequest: the promise returned to the caller

clientVars ==
  <<defaultHeaders, lastUpdate, pc, timer, age, call, sent, resp, raised, outcome, fetches, reads>>
retryVars == <<rpc, maxRetries, i, lastError, attempts, waits, result>>
vars == <<defaultHeaders, lastUpdate, pc, timer, age, call, sent, resp, raised, outcome,
          fetches, reads, rpc, maxRetries, i, lastError, attempts, waits, result>>

\* lines 22-25 and 107: API_CONFIG.DEFAULT_HEADERS plus Accept
SeedHeaders ==
  {SpreadHeaders(seed, Headers1("Accept", "application/json")) :
     seed \in {NoHeaders, Headers1("Content-Type", "application/json")}}

\* the value of an uninitialised `let lastError`
UndefinedThrown == Thrown("NonError", "-", "undefined")

Init ==
  /\ defaultHeaders \in SeedHeaders
  /\ lastUpdate = [k \in HeaderKeys |-> "none"]
  /\ pc = [r \in Req |-> "idle"]
  /\ timer = [r \in Req |-> "none"]
  /\ age = [r \in Req |-> 0]
  /\ call = [r \in Req |-> NoCall]
  /\ sent = [r \in Req |-> NoConfig]
  /\ resp = [r \in Req |-> NoResponse]
  /\ raised = [r \in Req |-> NoError]
  /\ outcome = [r \in Req |-> Pending]
  /\ fetches = [r \in Req |-> 0]
  /\ reads = [r \in Req |-> <<>>]
  /\ rpc = "idle"
  /\ maxRetries = 0
  /\ i = 0
  /\ lastError = UndefinedThrown
  /\ attempts = <<>>
  /\ waits = 0
  /\ result = Pending

\* ------------------------------------------------------------------------
\* apiClient: default headers
\* ------------------------------------------------------------------------
\* setDefaultHeaders spreading the old headers over the new ones
setDefaultHeadersKeepOld(headers) ==
  /\ defaultHeaders' = SpreadHeaders(headers, defaultHeaders)
  /\ lastUpdate' = [k \in HeaderKeys |->
                      IF headers[k] # Absent THEN headers[k] ELSE lastUpdate[k]]
  /\ UNCHANGED <<pc, timer, age, call, sent, resp, raised, outcome, fetches, reads>>
  /\ UNCHANGED retryVars

\* lines 109-114
setDefaultHeaders(headers) ==
  /\ defaultHeaders' = SpreadHeaders(defaultHeaders, headers)
  /\ lastUpdate' = [k \in HeaderKeys |->
                      IF headers[k] # Absent THEN headers[k] ELSE lastUpdate[k]]
  /\ UNCHANGED <<pc, timer, age, call, sent, resp, raised, outcome, fetches, reads>>
  /\ UNCHANGED retryVars

\* removeDefaultHeader when requests carry the header object itself instead
\* of a copy: the delete shows in every request in flight
removeDefaultHeaderShared(headerName) ==
  /\ defaultHeaders' = [defaultHeaders EXCEPT ![headerName] = Absent]
  /\ lastUpdate' = [lastUpdate EXCEPT ![headerName] = "removed"]
  /\ sent' = [r \in Req |->
                IF pc[r] = "fetching"
                THEN [sent[r] EXCEPT !.headers = [sent[r].headers EXCEPT ![headerName] = Absent]]
                ELSE sent[r]]
  /\ UNCHANGED <<pc, timer, age, call, resp, raised, outcome, fetches, reads>>
  /\ UNCHANGED retryVars

\* lines 116-118
removeDefaultHeader(headerName) ==
  /\ defaultHeaders' = [defaultHeaders EXCEPT ![headerName] = Absent]
  /\ lastUpdate' = [lastUpdate EXCEPT ![headerName] = "removed"]
  /\ UNCHANGED <<pc, timer, age, call, sent, resp, raised, outcome, fetches, reads>>
  /\ UNCHANGED retryVars

\* ------------------------------------------------------------------------
\* apiClient.request with fetchWithTimeout and handleResponse
\* ------------------------------------------------------------------------
Active(r) == pc[r] \in {"fetching", "reading"}

\* A helper is called and request runs up to `await fetch` (lines 120-124,
\* 27-42): the timer is scheduled and the network call is issued.
Call(r, c) ==
  /\ pc[r] \in {"idle", "settled"}
  /\ pc' = [pc EXCEPT ![r] = "fetching"]
  /\ timer' = [timer EXCEPT ![r] = "pending"]
  /\ age' = [age EXCEPT ![r] = 0]
  /\ call' = [call EXCEPT ![r] = c]
  /\ sent' = [sent EXCEPT ![r] = FetchInit(HelperConfig(c), defaultHeaders)]
  /\ resp' = [resp EXCEPT ![r] = NoResponse]
  /\ raised' = [raised EXCEPT ![r] = NoError]
  /\ outcome' = [outcome EXCEPT ![r] = Pending]
  /\ fetches' = [fetches EXCEPT ![r] = 1]
  /\ reads' = [reads EXCEPT ![r] = <<>>]
  /\ UNCHANGED <<defaultHeaders, lastUpdate>>
  /\ UNCHANGED retryVars

\* A helper is called and buildApiUrl throws (line 122): request goes to its
\* catch block before any timer or network call exists.
CallUrlFails(r, c, error) ==
  /\ pc[r] \in {"idle", "settled"}
  /\ pc' = [pc EXCEPT ![r] = "settled"]
  /\ timer' = [timer EXCEPT ![r] = "none"]
  /\ age' = [age EXCEPT ![r] = 0]
  /\ call' = [call EXCEPT ![r] = c]
  /\ sent' = [sent EXCEPT ![r] = NoConfig]
  /\ resp' = [resp EXCEPT ![r] = NoResponse]
  /\ raised' = [raised EXCEPT ![r] = error]
  /\ outcome' = [outcome EXCEPT ![r] = Rejected(Classify(error))]
  /\ fetches' = [fetches EXCEPT ![r] = 0]
  /\ reads' = [reads EXCEPT ![r] = <<>>]
  /\ UNCHANGED <<defaultHeaders, lastUpdate>>
  /\ UNCHANGED retryVars

\* FetchResolves without the clearTimeout of line 44
FetchResolvesLeaky(r, response) ==
  /\ pc[r] = "fetching"
  /\ pc' = [pc EXCEPT ![r] = "reading"]
  /\ resp' = [resp EXCEPT ![r] = response]
  /\ reads' = [reads EXCEPT ![r] = <<ReadMethod(response)>>]
  /\ UNCHANGED <<defaultHeaders, lastUpdate, timer, age, call, sent, raised, outcome, fetches>>
  /\ UNCHANGED retryVars

\* fetch resolves (lines 34-45): the timer is cleared, fetchWithTimeout
\* returns the response and handleResponse starts reading the body.
FetchResolves(r, response) ==
  /\ pc[r] = "fetching"
  /\ pc' = [pc EXCEPT ![r] = "reading"]
  /\ timer' = [timer EXCEPT ![r] = "cleared"]
  /\ resp' = [resp EXCEPT ![r] = response]
  /\ reads' = [reads EXCEPT ![r] = <<ReadMethod(response)>>]
  /\ UNCHANGED <<defaultHeaders, lastUpdate, age, call, sent, raised, outcome, fetches>>
  /\ UNCHANGED retryVars

\* FetchRejects without the clearTimeout of line 47
FetchRejectsLeaky(r, error) ==
  /\ pc[r] = "fetching"
  /\ pc' = [pc EXCEPT ![r] = "settled"]
  /\ raised' = [raised EXCEPT ![r] = error]
  /\ outcome' = [outcome EXCEPT ![r] = Rejected(Classify(error))]
  /\ UNCHANGED <<defaultHeaders, lastUpdate, timer, age, call, sent, resp, fetches, reads>>
  /\ UNCHANGED retryVars

\* fetch rejects with a transport failure (lines 46-49, then 126-146)
FetchRejects(r, error) ==
  /\ pc[r] = "fetching"
  /\ pc' = [pc EXCEPT ![r] = "settled"]
  /\ timer' = [timer EXCEPT ![r] = "cleared"]
  /\ raised' = [raised EXCEPT ![r] = error]
  /\ outcome' = [outcome EXCEPT ![r] = Rejected(Classify(error))]
  /\ UNCHANGED <<defaultHeaders, lastUpdate, age, call, sent, resp, fetches, reads>>
  /\ UNCHANGED retryVars

\* The timer of line 31 comes due and runs controller.abort().  An in-flight
\* fetch rejects with an AbortError (lines 46-49, then 126-134); a body read
\* in progress is aborted and fails inside handleResponse (lines 61-63).
TimerFires(r) ==
  /\ timer[r] = "pending"
  /\ age[r] >= TimeoutOf(sent[r])
  /\ timer' = [timer EXCEPT ![r] = "fired"]
  /\ pc' = [pc EXCEPT ![r] = IF Active(r) THEN "settled" ELSE pc[r]]
  /\ raised' = [raised EXCEPT ![r] =
                  CASE pc[r] = "fetching" -> AbortError
                    [] pc[r] = "reading" ->
                         ApiError(resp[r].status, MSG_INVALID_FORMAT, Lift(Undef))
                    [] OTHER -> raised[r]]
  /\ outcome' = [outcome EXCEPT ![r] =
                   CASE pc[r] = "fetching" -> Rejected(Classify(AbortError))
                     [] pc[r] = "reading" ->
                          Rejected(ApiError(resp[r].status, MSG_INVALID_FORMAT, Lift(Undef)))
                     [] OTHER -> outcome[r]]
  /\ UNCHANGED <<defaultHeaders, lastUpdate, age, call, sent, resp, fetches, reads>>
  /\ UNCHANGED retryVars

\* BodyRead with a second read of the body, as text, after response.json()
\* has failed
BodyReadFallback(r) ==
  /\ pc[r] = "reading"
  /\ pc' = [pc EXCEPT ![r] = "settled"]
  /\ reads' = [reads EXCEPT ![r] =
                 IF ReadBody(resp[r]).ok THEN reads[r] ELSE Append(reads[r], "text")]
  /\ outcome' = [outcome EXCEPT ![r] = handleResponse(resp[r])]
  /\ raised' = [raised EXCEPT ![r] = handleResponse(resp[r]).err]
  /\ UNCHANGED <<defaultHeaders, lastUpdate, timer, age, call, sent, resp, fetches>>
  /\ UNCHANGED retryVars

\* BodyRead with handleResponse awaited inside the try block and a catch
\* block that lacks the instanceof ApiError test of lines 127-129
BodyReadRewrapped(r) ==
  /\ pc[r] = "reading"
  /\ pc' = [pc EXCEPT ![r] = "settled"]
  /\ outcome' = [outcome EXCEPT ![r] =
                   IF handleResponse(resp[r]).kind = "rejected"
                   THEN Rejected(ApiError(0, MSG_NETWORK_ERROR, Lift(Undef)))
                   ELSE handleResponse(resp[r])]
  /\ raised' = [raised EXCEPT ![r] = handleResponse(resp[r]).err]
  /\ UNCHANGED <<defaultHeaders, lastUpdate, timer, age, call, sent, resp, fetches, reads>>
  /\ UNCHANGED retryVars

\* The body read finishes and handleResponse settles (lines 52-104).  request
\* returns that promise without awaiting it (line 125), so its catch block
\* does not see a rejection of handleResponse.
BodyRead(r) ==
  /\ pc[r] = "reading"
  /\ pc' = [pc EXCEPT ![r] = "settled"]
  /\ outcome' = [outcome EXCEPT ![r] = handleResponse(resp[r])]
  /\ raised' = [raised EXCEPT ![r] = handleResponse(resp[r]).err]
  /\ UNCHANGED <<defaultHeaders, lastUpdate, timer, age, call, sent, resp, fetches, reads>>
  /\ UNCHANGED retryVars

\* One clock tick passes for every running request.  A timer that is due
\* runs before the clock moves on.
Tick ==
  /\ \E r \in Req : Active(r)
  /\ \A r \in Req : Active(r) => age[r] < MaxTime
  /\ \A r \in Req : timer[r] = "pending" => age[r] < TimeoutOf(sent[r])
  /\ age' = [r \in Req |-> IF Active(r) THEN age[r] + 1 ELSE age[r]]
  /\ UNCHANGED <<defaultHeaders, lastUpdate, pc, timer, call, sent, resp, raised, outcome,
                 fetches, reads>>
  /\ UNCHANGED retryVars

\* ------------------------------------------------------------------------
\* retryRequest (lines 217-237)
\* ------------------------------------------------------------------------
\* the maxRetries parameter; -1 stands for an omitted argument
MaxRetriesOf(arg) == IF arg = -1 THEN RETRY_ATTEMPTS ELSE arg

\* line 224: the loop test, then either the next invocation or line 236
LoopTest(index, limit, error) ==
  IF index < limit
  THEN /\ rpc' = "calling"
       /\ result' = Pending
  ELSE /\ rpc' = "done"
       /\ result' = Rejected(error)

\* retryRequest is called: lines 222-224
StartRetry(arg) ==
  /\ rpc \in {"idle", "done"}
  /\ maxRetries' = MaxRetriesOf(arg)
  /\ i' = 0
  /\ lastError' = UndefinedThrown
  /\ attempts' = <<>>
  /\ waits' = 0
  /\ LoopTest(0, MaxRetriesOf(arg), UndefinedThrown)
  /\ UNCHANGED clientVars

\* requestFn resolves: line 226 returns its value
AttemptSucceeds(value) ==
  /\ rpc = "calling"
  /\ attempts' = Append(attempts, Resolved(value))
  /\ rpc' = "done"
  /\ result' = Resolved(value)
  /\ UNCHANGED <<maxRetries, i, lastError, waits>>
  /\ UNCHANGED clientVars

\* AttemptFails waiting the delay after every failure, the last included
AttemptFailsAlwaysWaits(error) ==
  /\ rpc = "calling"
  /\ attempts' = Append(attempts, Rejected(error))
  /\ lastError' = error
  /\ waits' = waits + 1
  /\ rpc' = "waiting"
  /\ UNCHANGED <<maxRetries, i, result>>
  /\ UNCHANGED clientVars

\* requestFn rejects: lines 227-233, up to the await of the delay when one
\* is scheduled, else on to the next loop test
AttemptFails(error) ==
  /\ rpc = "calling"
  /\ attempts' = Append(attempts, Rejected(error))
  /\ lastError' = error
  /\ IF i < maxRetries - 1
     THEN /\ waits' = waits + 1
          /\ rpc' = "waiting"
          /\ UNCHANGED <<i, result>>
     ELSE /\ i' = i + 1
          /\ LoopTest(i + 1, maxRetries, error)
          /\ UNCHANGED waits
  /\ UNCHANGED maxRetries
  /\ UNCHANGED clientVars

\* the delay of line 231 is over: i++ and the loop test
DelayElapses ==
  /\ rpc = "waiting"
  /\ i' = i + 1
  /\ LoopTest(i + 1, maxRetries, lastError)
  /\ UNCHANGED <<maxRetries, lastError, attempts, waits>>
  /\ UNCHANGED clientVars

\* ------------------------------------------------------------------------
\* Inputs
\* ------------------------------------------------------------------------
\* failures of buildApiUrl
UrlErrors ==
  {Thrown("Error", "Error", "Invalid endpoint"), Thrown("NonError", "-", "bad endpoint")}
\* rejections of fetch other than an abort
FailedToFetch == Thrown("TypeError", "TypeError", "Failed to fetch")
TransportErrors ==
  {FailedToFetch,
   Thrown("TypeError", "TypeError", "TypeError: Failed to fetch (net::ERR_FAILED)"),
   Thrown("TypeError", "TypeError", "NetworkError when attempting to fetch resource.")}

PlainRequest == HelperCall("request", Undef, "-", NoConfig)
\* calls of the specification of the responses: a plain one, and one whose
\* config brings its own credentials policy and abort signal
RespCalls ==
  {PlainRequest, HelperCall("request", Undef, "-", WithFetchOptions("omit", "caller.signal"))}

\* calls and responses of the concurrent specification
TimedCalls == {PlainRequest, HelperCall("request", Undef, "-", WithTimeout(1))}
OkResponse == Response(200, "application/json; charset=utf-8", "{\"data\":{\"id\":1}}", TRUE)
FewResponses ==
  {OkResponse,
   Response(404, "application/json; charset=utf-8", "{\"message\":\"Boom\"}", TRUE)}

\* calls and header updates of the specification of the outgoing call
OwnConfigs ==
  {NoConfig, WithHeaders(Headers1("X-Foo", "own")), WithHeaders(Headers1("x-foo", "lower")),
   WithHeaders(Headers1("Content-Type", "text/plain")), WithMethod("HEAD"), WithBody("raw")}
WireCalls ==
  {HelperCall(h, Undef, "-", c) : h \in {"request", "get", "delete"}, c \in OwnConfigs}
  \cup {HelperCall(h, d, "-", c) : h \in {"post", "put", "patch"},
                                   d \in {Undef, JStr("hi")},
                                   c \in OwnConfigs}
  \cup {HelperCall("upload", Undef, f, c) : f \in {"a.png", "b.pdf"}, c \in OwnConfigs}
HeaderUpdates ==
  {Headers1("X-Foo", "bar"),
   [NoHeaders EXCEPT !["X-Foo"] = "baz", !["Content-Type"] = "application/json"]}
RemovableKeys == {"X-Foo", "Content-Type", "Accept"}

\* successful results and failures of the operation handed to retryRequest
OpValues == {Lift(JStr("ok")), Lift(JNum("0"))}
OpErrors ==
  {ApiError(500, MSG_SERVER_ERROR, EmptyObject), ApiError(408, MSG_TIMEOUT, Lift(Undef)),
   Thrown("TypeError", "TypeError", "Failed to fetch"), Thrown("NonError", "-", "oops")}

\* ------------------------------------------------------------------------
\* Specifications
\* ------------------------------------------------------------------------
\* concurrent requests, their timers and the clock
Next ==
  \/ \E r \in Req, c \in TimedCalls : Call(r, c)
  \/ \E r \in Req, response \in FewResponses : FetchResolves(r, response)
  \/ \E r \in Req : FetchRejects(r, FailedToFetch)
  \/ \E r \in Req : TimerFires(r)
  \/ \E r \in Req : BodyRead(r)
  \/ Tick

Spec == Init /\ [][Next]_vars

\* one request at a time: every helper and config, every header update
NextWire ==
  \/ \E c \in WireCalls : Call(1, c)
  \/ FetchRejects(1, FailedToFetch)
  \/ \E headers \in HeaderUpdates : setDefaultHeaders(headers)
  \/ \E headerName \in RemovableKeys : removeDefaultHeader(headerName)

SpecWire == Init /\ [][NextWire]_vars

\* the same, with time passing and due timers firing (the event loop runs
\* every timer that is due; the server owes nothing)
SpecLive ==
  Init /\ [][Next]_vars /\ WF_vars(Tick) /\ \A r \in Req : WF_vars(TimerFires(r))

\* concurrent plain requests and header updates
NextShared ==
  \/ \E r \in Req : Call(r, PlainRequest)
  \/ \E r \in Req : FetchResolves(r, OkResponse)
  \/ \E r \in Req : BodyRead(r)
  \/ setDefaultHeaders(Headers1("X-Foo", "bar"))
  \/ removeDefaultHeader("X-Foo")

SpecShared == Init /\ [][NextShared]_vars

\* one plain request: every response and every failure
NextResp ==
  \/ \E c \in RespCalls : Call(1, c)
  \/ \E error \in UrlErrors : CallUrlFails(1, PlainRequest, error)
  \/ \E response \in Responses : FetchResolves(1, response)
  \/ \E error \in TransportErrors : FetchRejects(1, error)
  \/ TimerFires(1)
  \/ BodyRead(1)
  \/ Tick

SpecResp == Init /\ [][NextResp]_vars

\* retryRequest alone
NextRetry ==
  \/ \E arg \in (0..MaxRetries) \cup {-1} : StartRetry(arg)
  \/ \E value \in OpValues : AttemptSucceeds(value)
  \/ \E error \in OpErrors : AttemptFails(error)
  \/ DelayElapses

SpecRetry == Init /\ [][NextRetry]_vars

\* ------------------------------------------------------------------------
\* Properties
\* ------------------------------------------------------------------------
\* the request settled after fetch resolved with a response
Answered(r) == pc[r] = "settled" /\ resp[r] # NoResponse

\* C1: every rejection of request is an ApiError, whatever the network
\* outcome, status, content type and parsed body.
C1_RejectsOnlyApiError ==
  \A r \in Req : outcome[r].kind = "rejected" => IsApiError(outcome[r].err)

\* C2: a call whose timeout duration is exceeded before it has finished
\* rejects with ApiError 408 and the timeout message; it neither resolves nor
\* rejects with another status.
C2_OverdueRejects408 ==
  \A r \in Req :
    (pc[r] = "settled" /\ age[r] > TimeoutOf(sent[r]))
      => outcome[r] = Rejected(ApiError(408, MSG_TIMEOUT, Lift(Undef)))

\* C3: once fetchWithTimeout has returned or thrown, its timer is no longer
\* pending: a timer is pending only while the network call is in flight.
C3_NoTimerLeak ==
  \A r \in Req : timer[r] = "pending" => pc[r] = "fetching"

C3_Witness ==
  \E r1 \in Req, r2 \in Req :
    /\ pc[r1] = "reading" /\ timer[r1] = "cleared"
    /\ pc[r2] = "settled" /\ raised[r2] = FailedToFetch /\ timer[r2] = "cleared"

\* C4: a 2xx response whose parsed body has a `data` field holding X resolves
\* to X, whatever X is; a 2xx parsed body without `data` resolves to the whole
\* parsed body.
C4_UnwrapsData ==
  \A r \in Req :
    (Answered(r) /\ Ok(resp[r]) /\ ReadBody(resp[r]).ok)
      => LET body == ReadBody(resp[r]).value IN
         outcome[r] = IF body.data.t # "undefined"
                      THEN Resolved(Lift(body.data))
                      ELSE Resolved(body)

\* the default message the claim C5 maps each status to
MappedDefault(status) ==
  IF status = 400 THEN MSG_INVALID_DATA
  ELSE IF status = 401 THEN MSG_UNAUTHORIZED
  ELSE IF status = 403 THEN MSG_FORBIDDEN
  ELSE IF status = 404 THEN MSG_NOT_FOUND
  ELSE MSG_SERVER_ERROR

\* C5 as stated: for a non-2xx response with a parseable body the ApiError
\* message is the body's `message` field whenever the body has one, whatever
\* its value, and otherwise the default mapped from the status.
C5_MessageWheneverPresent ==
  \A r \in Req :
    (Answered(r) /\ ~Ok(resp[r]) /\ ReadBody(resp[r]).ok)
      => LET body == ReadBody(resp[r]).value IN
         /\ outcome[r].kind = "rejected"
         /\ outcome[r].err.message =
              IF body.message.t # "undefined" THEN JsToString(body.message)
              ELSE MappedDefault(resp[r].status)

\* C5 amended: for a non-2xx response with a parseable body the ApiError
\* message is the text of the body's `message` field whenever the body is an
\* object whose `message` is truthy, and otherwise (no `message`, or an empty
\* string, 0, false or null) the default mapped from the status.
C5_MessageWhenTruthy ==
  \A r \in Req :
    (Answered(r) /\ ~Ok(resp[r]) /\ ReadBody(resp[r]).ok)
      => LET body == ReadBody(resp[r]).value IN
         /\ outcome[r].kind = "rejected"
         /\ IsApiError(outcome[r].err)
         /\ outcome[r].err.message =
              IF body.message.t \in {"undefined", "null"} THEN MappedDefault(resp[r].status)
              ELSE IF body.message.t = "string" /\ body.message.s = ""
                   THEN MappedDefault(resp[r].status)
              ELSE IF body.message.t = "number" /\ body.message.s = "0"
                   THEN MappedDefault(resp[r].status)
              ELSE IF body.message = JFalse THEN MappedDefault(resp[r].status)
              ELSE JsToString(body.message)

C5_Witness ==
  \E r \in Req :
    /\ Answered(r)
    /\ resp[r] = Response(403, "application/json; charset=utf-8", "{\"message\":\"\"}", TRUE)
    /\ outcome[r].err.message = MSG_FORBIDDEN

\* C6: an upload whose config names no headers (nor method, nor body) hands
\* fetch a header set without Content-Type, the method POST and a multipart
\* body holding the file under the field name "file".
C6_UploadNoContentType ==
  \A r \in Req :
    (call[r].helper = "upload" /\ pc[r] = "fetching"
       /\ call[r].config.fields \cap {"headers", "method", "body"} = {})
      => /\ sent[r].headers["Content-Type"] = Absent
         /\ sent[r].method = "POST"
         /\ sent[r].body = FormData(call[r].file)

\* number of failed invocations among the first n attempts
RECURSIVE Failures(_, _)
Failures(seq, n) ==
  IF n = 0 THEN 0
  ELSE Failures(seq, n - 1) + (IF seq[n].kind = "rejected" THEN 1 ELSE 0)

\* C7: with maxRetries N >= 1, an operation that fails k < N times and then
\* succeeds is invoked k+1 times with k delays and retryRequest resolves with
\* that value; an operation that always fails is invoked N times with N-1
\* delays and retryRequest rejects with the error of the N-th attempt;
\* whatever the kind of the errors.
C7_RetryCounts ==
  (rpc = "done" /\ maxRetries >= 1)
    => LET n == Len(attempts)
           k == Failures(attempts, n) IN
       /\ n >= 1 /\ n <= maxRetries
       /\ IF attempts[n].kind = "resolved"
          THEN /\ k = n - 1 /\ k < maxRetries
               /\ waits = k
               /\ result = Resolved(attempts[n].value)
          ELSE /\ k = n /\ n = maxRetries
               /\ waits = maxRetries - 1
               /\ result = Rejected(attempts[maxRetries].err)

C7_Witness ==
  /\ rpc = "done" /\ maxRetries = 3 /\ Len(attempts) = 3 /\ waits = 2
  /\ attempts[1] = Rejected(Thrown("NonError", "-", "oops"))
  /\ attempts[2] = Rejected(ApiError(408, MSG_TIMEOUT, Lift(Undef)))
  /\ attempts[3] = Resolved(Lift(JStr("ok")))
  /\ result = Resolved(Lift(JStr("ok")))

\* the value of header k after the updates made so far, in call order
\* ("none": no update has named k)
AfterUpdates(k) == IF lastUpdate[k] = "removed" THEN Absent ELSE lastUpdate[k]

\* C8: a request issued through any helper whose own config does not name a
\* header h sends h with the value of the latest setDefaultHeaders naming h,
\* and omits h when the latest update of h is a removeDefaultHeader.
C8_HeadersFollowUpdates ==
  [][\A r \in Req :
       (pc[r] # "fetching" /\ pc'[r] = "fetching")
         => \A k \in HeaderKeys :
              (call'[r].config.headers[k] = Absent /\ lastUpdate[k] # "none")
                => sent'[r].headers[k] = AfterUpdates(k)]_vars

C8_Witness ==
  \E r \in Req :
    /\ pc[r] = "fetching" /\ call[r].helper = "upload"
    /\ lastUpdate["X-Foo"] = "baz" /\ sent[r].headers["X-Foo"] = "baz"
    /\ lastUpdate["Accept"] = "removed" /\ sent[r].headers["Accept"] = Absent

\* the body of the response cannot be parsed: the stream breaks, or the
\* declared type is JSON and the text is not JSON
FailsToParse(response) ==
  \/ ~response.intact
  \/ response.ctype = "application/json; charset=utf-8" /\ response.raw \in MalformedBodies

\* C9: a response of any status whose body fails to parse rejects with an
\* ApiError carrying the response status, the invalid-format message and no
\* data; the parse failure takes precedence over the status dispatch.
C9_MalformedBody ==
  \A r \in Req :
    (Answered(r) /\ FailsToParse(resp[r]))
      => outcome[r] = Rejected(ApiError(resp[r].status, MSG_INVALID_FORMAT, Lift(Undef)))

C9_Witness ==
  \E r \in Req :
    /\ Answered(r)
    /\ resp[r] = Response(404, "application/json; charset=utf-8", "<html>oops</html>", TRUE)
    /\ outcome[r].err.message = MSG_INVALID_FORMAT /\ outcome[r].err.status = 404

\* C10: a failure raised in the request path that is not an ApiError becomes
\* ApiError 408 (timeout message) for a cancellation, else ApiError 0 with the
\* cannot-connect message when its message says the transport could not
\* connect, else ApiError 0 with the network-error message, also for a thrown
\* value that is not an Error object.
C10_ClassifiesEveryFailure ==
  \A r \in Req :
    (pc[r] = "settled" /\ raised[r] # NoError /\ ~IsApiError(raised[r]))
      => outcome[r] =
           Rejected(IF raised[r].name = "AbortError"
                    THEN ApiError(408, MSG_TIMEOUT, Lift(Undef))
                    ELSE IF Includes(raised[r].message, "Failed to fetch")
                         THEN ApiError(0, MSG_CANNOT_CONNECT, Lift(Undef))
                         ELSE ApiError(0, MSG_NETWORK_ERROR, Lift(Undef)))

\* C11: an ApiError created by handleResponse (status dispatch or malformed
\* body) reaches the caller of request with the status, message and data it
\* was created with; request never replaces it by a 408 or status-0 ApiError.
C11_NoDoubleWrapping ==
  \A r \in Req :
    (Answered(r) /\ (~Ok(resp[r]) \/ FailsToParse(resp[r])))
      => /\ IsApiError(raised[r])
         /\ outcome[r] = Rejected(raised[r])
         /\ outcome[r].err.status = resp[r].status
         /\ outcome[r].err.status \notin {0, 408}

C11_Witness ==
  \E r \in Req :
    /\ Answered(r)
    /\ resp[r] = Response(404, "application/json; charset=utf-8", "{\"message\":\"Boom\"}", TRUE)
    /\ outcome[r] =
         Rejected(ApiError(404, "Boom", Body("{\"message\":\"Boom\"}", Undef, JStr("Boom"))))

\* C12: retryRequest invokes the operation at least once before it settles,
\* for every maxRetries value, 0 included.
C12_AtLeastOneAttempt ==
  rpc = "done" => Len(attempts) >= 1

\* C13: the header set sent is the per-key merge of the caller's headers over
\* the DefaultHeaders read when the request is issued: the caller's value when
\* the caller supplies the key, else the default's when there is one, else
\* the key is absent; keys are compared case-sensitively.
C13_PerKeyMerge ==
  [][\A r \in Req :
       (pc[r] # "fetching" /\ pc'[r] = "fetching")
         => \A k \in HeaderKeys :
              sent'[r].headers[k] =
                IF call'[r].config.headers[k] # Absent THEN call'[r].config.headers[k]
                ELSE defaultHeaders[k]]_vars

C13_Witness ==
  \E r \in Req :
    /\ pc[r] = "fetching"
    /\ call[r].config.headers["x-foo"] = "lower"
    /\ sent[r].headers["x-foo"] = "lower"
    /\ sent[r].headers["X-Foo"] = "bar"
    /\ sent[r].headers["Accept"] = "application/json"

\* C14: whatever the caller's config, fetch is called with credentials
\* "include" and the signal of the request's own controller, so an in-flight
\* request is aborted only by its own timer.
C14_OwnCredentialsAndSignal ==
  \A r \in Req :
    /\ fetches[r] > 0 => /\ sent[r].credentials = "include"
                         /\ sent[r].signal = "controller.signal"
    /\ raised[r].name = "AbortError" => timer[r] = "fired"

C14_Witness ==
  \E r \in Req :
    /\ call[r].config.signal = "caller.signal"
    /\ call[r].config.credentials = "omit"
    /\ sent[r].signal = "controller.signal"
    /\ sent[r].credentials = "include"
    /\ timer[r] = "fired"
    /\ outcome[r] = Rejected(ApiError(408, MSG_TIMEOUT, Lift(Undef)))

\* the method each helper sets, and the JSON text of the data used in calls
HelperMethod(helper) ==
  IF helper = "get" THEN "GET"
  ELSE IF helper = "put" THEN "PUT"
  ELSE IF helper = "patch" THEN "PATCH"
  ELSE IF helper = "delete" THEN "DELETE"
  ELSE IF helper \in {"post", "upload"} THEN "POST"
  ELSE Absent
JsonText(data) ==
  IF data = JStr("hi") THEN "\"hi\"" ELSE Absent

\* C15: for get/post/put/patch/delete/upload a method supplied by the
\* caller's config is the method sent, else the helper's own; for
\* post/put/patch the body sent is the JSON serialization of data unless the
\* caller's config supplies a body.
C15_ConfigOverridesHelper ==
  \A r \in Req :
    (fetches[r] > 0 /\ call[r].helper # "request")
      => /\ sent[r].method = IF "method" \in call[r].config.fields
                             THEN call[r].config.method
                             ELSE HelperMethod(call[r].helper)
         /\ call[r].helper \in {"post", "put", "patch"}
              => sent[r].body = IF "body" \in call[r].config.fields
                                THEN call[r].config.body
                                ELSE JsonText(call[r].data)

C15_Witness ==
  \E r1 \in Req :
    /\ call[r1].helper = "patch" /\ call[r1].data = JStr("hi")
    /\ call[r1].config = WithMethod("HEAD")
    /\ sent[r1].method = "HEAD" /\ sent[r1].body = "\"hi\""

\* C16: for a non-2xx response with a parseable body the ApiError carries the
\* response status and the coerced body: the parsed body itself when it is a
\* structured object, an empty object when it is text, a number, a boolean
\* or null.
C16_CoercedData ==
  \A r \in Req :
    (Answered(r) /\ ~Ok(resp[r]) /\ ReadBody(resp[r]).ok)
      => LET body == ReadBody(resp[r]).value IN
         /\ outcome[r].kind = "rejected"
         /\ outcome[r].err.status = resp[r].status
         /\ body.t \in {"object", "array"} => outcome[r].err.data = body
         /\ body.t \in {"string", "number", "boolean", "null"}
              => outcome[r].err.data = EmptyObject

C16_Witness ==
  \E r \in Req :
    /\ Answered(r)
    /\ resp[r] = Response(500, "application/json; charset=utf-8", "null", TRUE)
    /\ outcome[r] = Rejected(ApiError(500, MSG_SERVER_ERROR, EmptyObject))

\* C17: the headers carried by a request are those computed from
\* DefaultHeaders when it was issued; a setDefaultHeaders or
\* removeDefaultHeader made while requests are in flight changes neither
\* their headers nor their progress and outcome.
C17_NotRetroactive ==
  [][\A r \in Req :
       /\ (pc[r] # "fetching" /\ pc'[r] = "fetching")
            => \A k \in HeaderKeys :
                 call'[r].config.headers[k] = Absent
                   => sent'[r].headers[k] = defaultHeaders[k]
       /\ Active(r) => sent'[r] = sent[r]
       /\ (defaultHeaders' # defaultHeaders \/ lastUpdate' # lastUpdate)
            => /\ sent'[r] = sent[r]
               /\ pc'[r] = pc[r] /\ outcome'[r] = outcome[r]
               /\ resp'[r] = resp[r] /\ timer'[r] = timer[r]]_vars

C17_Witness ==
  \E r1 \in Req, r2 \in Req :
    /\ pc[r1] = "fetching" /\ sent[r1].headers["X-Foo"] = "bar"
    /\ pc[r2] = "fetching" /\ sent[r2].headers["X-Foo"] = Absent
    /\ lastUpdate["X-Foo"] = "bar" /\ defaultHeaders["X-Foo"] = "bar"

\* the state of the request in slot r, in the terms of the per-request state
\* machine ("None": no request yet; Building is the synchronous start of a call)
Phase(r) ==
  CASE pc[r] = "idle" -> "None"
    [] pc[r] = "fetching" -> "InFlight"
    [] pc[r] = "reading" -> "Parsing"
    [] OTHER -> IF outcome[r].kind = "resolved" THEN "Success"
                ELSE IF resp[r] # NoResponse THEN "Failure"
                ELSE IF raised[r] = AbortError THEN "TimedOut"
                ELSE "TransportError"
Terminal == {"Success", "Failure", "TimedOut", "TransportError"}

C19_EventuallySettles ==
  \A r \in Req : (pc[r] \in {"fetching", "reading"}) ~> (pc[r] = "settled")

====
